---- MODULE Spec2Model ----
(***************************************************************************)
(* BitBot data pipeline: WindowGrouper (src/grouper/src/main.py),          *)
(* Cleaner (src/limpieza/src/main.py), BalanceadorClases                   *)
(* (src/limpieza/src/balance_clases.py) and PipelineOrchestrator           *)
(* (src/main.py).                                                          *)
(*                                                                         *)
(* The repository has three entry points that this module runs:            *)
(*   prog = "pipeline"  src/main.py main(): run_pipeline                   *)
(*   prog = "cleaner"   src/limpieza/src/main.py __main__: Cleaner.main    *)
(*   prog = "balancer"  src/limpieza/src/balance_clases.py __main__        *)
(* and the concurrent part of the scraping stage is run by itself:         *)
(*   prog = "consulter" src/scraping/src/consulter.py: Consulter.main      *)
(*                                                                         *)
(* A table (pandas DataFrame, CSV file) is a record [columns, rows, text]:  *)
(* its column set, its rows (records over the columns) and the columns     *)
(* whose values are not finite numbers (text, NaN).  The W columns         *)
(* entrada_vela_1..W of a grouped row are the sequence row.entrada_vela,   *)
(* likewise salida_vela.  Max_vela, Min_vela and porcentaje_retorno_vela   *)
(* are copied by the same statements as entrada_vela and are left out.     *)
(* Dates are integers (the CSV text "YYYY-MM-DD HH:MM:SS" orders the same  *)
(* way).  Prices are small naturals; ratios are compared exactly, by       *)
(* cross-multiplication.                                                   *)
(***************************************************************************)
EXTENDS Integers, Sequences, FiniteSets, TLC

VARIABLES
    prog,           \* entry point that was started
    pc,             \* position of the running program
    config,         \* the parameters the entry point was started with
    candles,        \* scraping/data/bitcoin_candles.csv
    groups,         \* Grouper: result of _create_groups
    data_final,     \* Grouper: rows built by _create_dataframe_from_groups
    dataframe,      \* Grouper: the dataframe made of data_final
    data_grouped,   \* grouper/data/data_grouped.csv
    data,           \* Cleaner.data / BalanceadorClases.data
    x_train, x_test, y_train, y_test,   \* Cleaner splits
    data_balanced,  \* BalanceadorClases.data_balanced
    saved,          \* files written by Cleaner.save_data / save_balanced_data
    trace,          \* history: the stages and steps started, in order
    errlog,         \* history: stage names logged by the except blocks
    exc,            \* the exception in flight (None when there is none)
    result,         \* what the entry point reported to its caller
    smote_call,     \* history: arguments of the last apply_smote_temporal_safe
    smote_return,   \* history: what that call returned or raised
    semaphore,      \* Consulter.semaphore: the permits that are free
    tasks,          \* Consulter: one fetch_url_with_retry task per URL
    rigth_request_count,    \* Consulter.rigth_request_count
    wrong_request_count,    \* Consulter.wrong_request_count
    responses       \* Consulter: the list process_urls returned

vars == <<prog, pc, config, candles, groups, data_final, dataframe, data_grouped, data,
          x_train, x_test, y_train, y_test, data_balanced, saved, trace,
          errlog, exc, result, smote_call, smote_return, semaphore, tasks,
          rigth_request_count, wrong_request_count, responses>>

\* the state of the Consulter
cvars == <<semaphore, tasks, rigth_request_count, wrong_request_count,
           responses>>

\* the state of the orchestrator, the Grouper, the Cleaner and the balancer
pvars == <<candles, groups, data_final, dataframe, data_grouped, data,
           x_train, x_test, y_train, y_test, data_balanced, saved, errlog,
           exc, smote_call, smote_return>>

----------------------------------------------------------------------------
(* Bounds of the model                                                     *)

MaxCandles == 4     \* longest candle file
MaxWindow  == 2     \* largest candle_size_to_traing
MaxFuture  == 1     \* largest candle_to_predict
MaxRows    == 7     \* longest data_grouped.csv read by the Cleaner
MaxBalRows == 5     \* longest table given to BalanceadorClases.main
MaxK       == 3     \* largest k_neighbors
MaxUrls    == 3     \* longest url_list given to Consulter.main
MaxRetries == 1     \* largest max_retries
MaxConcurrent == 2  \* largest max_concurrent

\* (entrada_vela_1, salida_vela_1) of a candle
CandleKinds == {[entrada |-> 1, salida |-> 1], [entrada |-> 2, salida |-> 1],
                [entrada |-> 1, salida |-> 2], [entrada |-> 1, salida |-> 0]}

\* percentage_return_threshold as a fraction num/den
Thresholds == {[num |-> 0, den |-> 1], [num |-> 1, den |-> 10000]}

\* test_size as a fraction num/den.  For these values the double evaluation
\* int(n * (1 - test_size)) equals the exact floor for every n.
TestSizes == {[num |-> 1, den |-> 10], [num |-> 1, den |-> 5],
              [num |-> 1, den |-> 2]}

\* sampling_strategy as a fraction num/den (0.5, 0.8, 1.0); the double
\* evaluations of minority/majority >= s and int(majority * s) are exact here.
Strategies == {[num |-> 1, den |-> 2], [num |-> 4, den |-> 5],
               [num |-> 1, den |-> 1]}

None == "None"
NaN  == "NaN"

\* a table attribute that is None
NoneTable == [none |-> TRUE]

NoException == [type |-> None, stage |-> None]

----------------------------------------------------------------------------
(* Generic helpers                                                         *)

Max(a, b) == IF a >= b THEN a ELSE b

Range(s) == {s[i] : i \in DOMAIN s}

\* s[a..b] of a Python/pandas slice with 0-based half-open bounds [a, b)
Slice(s, a, b) == [i \in 1..(b - a) |-> s[a + i]]

\* floor(n * num / den) for n, num >= 0, den > 0
FloorMul(n, f) == (n * f.num) \div f.den

Count(s, v) == Cardinality({i \in DOMAIN s : s[i] = v})

----------------------------------------------------------------------------
(* Exceptions and the except blocks of the orchestrator                    *)

\* An exception object as the raising statement builds it: its type, and no
\* stage name (no raise site of the repository or of pandas sets one).
Exception(type) == [type |-> type, stage |-> None]

\* The except block that encloses position p inside run_pipeline
ExceptPc(p) ==
    CASE p = "run_scraping" -> "except_scraping"
      [] p \in {"run_grouper", "g_create_groups", "g_rows", "g_date_column",
                "g_save"} -> "except_grouper"
      [] OTHER -> "except_cleaning"

\* raise: inside run_pipeline the enclosing except block is entered, in a
\* program started on its own the exception leaves main.
Raise(type) ==
    /\ exc' = Exception(type)
    /\ pc' = IF prog = "pipeline" THEN ExceptPc(pc) ELSE "crashed"
    /\ result' = IF prog = "pipeline" THEN result ELSE "raised"

----------------------------------------------------------------------------
(* src/main.py: configuration                                              *)

EXECUTE_SCRAPING == TRUE
EXECUTE_GROUPER  == TRUE
EXECUTE_CLEANING == TRUE

\* keys of CLEANING_CONFIG
CLEANING_CONFIG == {"file_name_to_load", "test_size", "include_data_time",
                    "sampling_strategy"}

\* keyword parameters of Cleaner.__init__
CleanerInitParams == {"file_name_to_load", "test_size", "include_data_time"}

\* GROUPER_CONFIG, scaled to the bounds of the model
GrouperConfigs ==
    [candle_size_to_traing : 1..MaxWindow,
     candle_to_predict : 0..MaxFuture,
     percentage_return_threshold : Thresholds]

----------------------------------------------------------------------------
(* Candle files                                                            *)

DayNames == <<"Lunes", "Martes", "Miercoles", "Jueves", "Viernes", "Sabado",
              "Domingo">>

\* the integers 0..6 of day_mapping, written as text so that a dia_semana
\* cell has one type before and after the encoding
DayCodes == <<"0", "1", "2", "3", "4", "5", "6">>

\* CalculatorData._calculate_day_of_week: the Spanish name of the weekday
DayOfWeek(fecha) == DayNames[((fecha - 1) % 7) + 1]

\* bitcoin_candles.csv: Saver.main writes the candles sorted by time
CandleFiles ==
    UNION {{[i \in 1..n |-> [entrada_vela_1 |-> k[i].entrada,
                             salida_vela_1 |-> k[i].salida,
                             fecha |-> i,
                             dia_semana |-> DayOfWeek(i)]] :
            k \in [1..n -> CandleKinds]} : n \in 0..MaxCandles}

----------------------------------------------------------------------------
(* src/grouper/src/main.py: Grouper                                        *)

\* CreateGroups with range(max_index + 1): one window too many
CreateGroupsOneMore(n, window, future) ==
    LET max_index == n - window - future
    IN  [j \in 1..Max(max_index + 1, 0) |->
            [train_indices |-> [start |-> j - 1, stop |-> j - 1 + window],
             predict_index |-> (j - 1) + window + future - 1]]

\* CreateGroups with one window per candle: nothing is reserved at the end
\* of the file for the window and its label
CreateGroupsEveryCandle(n, window, future) ==
    LET max_index == n
    IN  [j \in 1..Max(max_index, 0) |->
            [train_indices |-> [start |-> j - 1, stop |-> j - 1 + window],
             predict_index |-> (j - 1) + window + future - 1]]

\* Grouper._create_groups: (range(i, i + window), i + window + future - 1)
\* for i in range(n - window - future); indices are 0-based as in the code
CreateGroups(n, window, future) ==
    LET max_index == n - window - future
    IN  [j \in 1..Max(max_index, 0) |->
            [train_indices |-> [start |-> j - 1, stop |-> j - 1 + window],
             predict_index |-> (j - 1) + window + future - 1]]

\* the indices of range(start, stop), in order
RangeList(r) == [p \in 1..(r.stop - r.start) |-> r.start + p - 1]

\* data.iloc[idx] is defined for 0 <= idx < n (negative indices wrap in
\* pandas; the groups never hold one)
ValidILoc(tbl, idx) == idx >= 0 /\ idx < Len(tbl)

ILoc(tbl, idx) == tbl[idx + 1]

\* a / b > t as numpy evaluates it on float64: a division by zero yields
\* inf, -inf or nan (a warning, no exception), and nan > t is False
RatioGreater(a, b, t) ==
    IF b > 0 THEN a * t.den > t.num * b
    ELSE IF b < 0 THEN a * t.den < t.num * b
    ELSE a > 0

\* CalculatePredictCandle with >= in place of >
CalculatePredictCandleGeq(data_row, predict_candle, window, threshold) ==
    LET last_price == data_row.salida_vela[window]
        predict_price == predict_candle.entrada_vela_1
    IN  [c \in DOMAIN data_row \cup {"is_alcista"} |->
            IF c = "is_alcista"
            THEN IF ~RatioGreater(last_price - predict_price, last_price,
                                  [num |-> 0 - threshold.num,
                                   den |-> threshold.den]) THEN 1 ELSE 0
            ELSE data_row[c]]

\* Grouper._calculate_predict_candle
CalculatePredictCandle(data_row, predict_candle, window, threshold) ==
    LET last_candle_position == window
        last_price == data_row.salida_vela[last_candle_position]
        predict_price == predict_candle.entrada_vela_1
    IN  [c \in DOMAIN data_row \cup {"is_alcista"} |->
            IF c = "is_alcista"
            THEN IF RatioGreater(predict_price - last_price, last_price,
                                 threshold) THEN 1 ELSE 0
            ELSE data_row[c]]

\* CalculateDates with the date fields of the last candle of the window
CalculateDatesLast(data_row, train_candles) ==
    LET last_candle == train_candles[Len(train_candles)]
    IN  [c \in DOMAIN data_row \cup {"fecha", "dia_semana"} |->
            IF c = "fecha" THEN last_candle.fecha
            ELSE IF c = "dia_semana" THEN last_candle.dia_semana
            ELSE data_row[c]]

\* Grouper._calculate_dates: the date fields of the first candle
CalculateDates(data_row, train_candles) ==
    LET first_candle == train_candles[1]
    IN  [c \in DOMAIN data_row \cup {"fecha", "dia_semana"} |->
            IF c = "fecha" THEN first_candle.fecha
            ELSE IF c = "dia_semana" THEN first_candle.dia_semana
            ELSE data_row[c]]

\* Grouper._process_group with _extract_candle_features
ProcessGroup(tbl, train_indices, predict_index, window, threshold) ==
    LET idxs == RangeList(train_indices)
        train_candles == [p \in DOMAIN idxs |-> ILoc(tbl, idxs[p])]
        predict_candle == ILoc(tbl, predict_index)
        features ==
            [entrada_vela |-> [p \in DOMAIN idxs |->
                                  ILoc(tbl, idxs[p]).entrada_vela_1],
             salida_vela |-> [p \in DOMAIN idxs |->
                                  ILoc(tbl, idxs[p]).salida_vela_1]]
    IN  CalculatePredictCandle(CalculateDates(features, train_candles),
                               predict_candle, window, threshold)

\* columns that hold text when a table is built or read from CSV
TextColumns == {"date", "fecha", "dia_semana"}

\* pd.DataFrame(list of dicts): no row gives a frame without columns
DataFrame(rows) ==
    LET cols == IF rows = <<>> THEN {} ELSE DOMAIN rows[1]
    IN  [columns |-> cols, rows |-> rows, text |-> cols \cap TextColumns]

\* Grouper._create_date_column: date = to_datetime(fecha + ' ' + hora_inicial)
CreateDateColumn(df) ==
    [columns |-> df.columns \cup {"date"},
     rows |-> [i \in DOMAIN df.rows |->
                 [c \in df.columns \cup {"date"} |->
                     IF c = "date" THEN df.rows[i].fecha ELSE df.rows[i][c]]],
     text |-> df.text]

----------------------------------------------------------------------------
(* Tables read by the Cleaner and by BalanceadorClases                     *)

EmptyTable == [columns |-> {}, rows |-> <<>>, text |-> {}]

\* date of row i of n: in time order, in time order with equal dates, and
\* out of time order with equal dates
DatePatterns == {"ascending", "pairs", "descending_pairs"}

DateOf(pattern, i, n) ==
    CASE pattern = "ascending" -> i
      [] pattern = "pairs" -> (i + 1) \div 2
      [] OTHER -> (n + 2 - i) \div 2

\* data_grouped.csv files with the date column; entrada_vela is the row's
\* place in the file, so every row is distinguishable
DatedFiles ==
    UNION {{[columns |-> {"entrada_vela", "fecha", "dia_semana", "date",
                          "is_alcista"},
             rows |-> [i \in 1..n |->
                 [entrada_vela |-> <<i>>,
                  fecha |-> DateOf(p, i, n),
                  dia_semana |-> DayOfWeek(DateOf(p, i, n)),
                  date |-> DateOf(p, i, n),
                  is_alcista |-> y[i]]],
             text |-> TextColumns] :
            y \in [1..n -> {0, 1}], p \in DatePatterns} : n \in 0..MaxRows}

\* files whose date column is missing
UndatedFiles ==
    UNION {{[columns |-> {"entrada_vela", "is_alcista"},
             rows |-> [i \in 1..n |->
                 [entrada_vela |-> <<i>>, is_alcista |-> y[i]]],
             text |-> {}] :
            y \in [1..n -> {0, 1}]} : n \in 0..2}

\* input tables of BalanceadorClases.main: numeric only, or with a text column
BalancerFiles ==
    UNION {{[columns |-> {"entrada_vela", "is_alcista"} \cup t,
             rows |-> [i \in 1..n |->
                 [c \in {"entrada_vela", "is_alcista"} \cup t |->
                     IF c = "entrada_vela" THEN <<i>>
                     ELSE IF c = "is_alcista" THEN y[i] ELSE i]],
             text |-> t] :
            y \in [1..n -> {0, 1}], t \in {{}, {"fecha"}}} :
           n \in 0..MaxBalRows}

\* df.drop(columns = cols)
Drop(df, cols) ==
    [columns |-> df.columns \ cols,
     rows |-> [i \in DOMAIN df.rows |->
                 [c \in df.columns \ cols |-> df.rows[i][c]]],
     text |-> df.text \ cols]

\* df[col] as a list of values
Column(df, col) == [i \in DOMAIN df.rows |-> df.rows[i][col]]

\* df.iloc[a:b]
ILocSlice(df, a, b) ==
    [columns |-> df.columns, rows |-> Slice(df.rows, a, b), text |-> df.text]

----------------------------------------------------------------------------
(* src/limpieza/src/main.py: Cleaner                                       *)

Min(S) == CHOOSE m \in S : \A e \in S : m <= e

\* the orders (as lists of row numbers) in which an ascending sort on col may
\* leave the rows: sort_values uses kind = 'quicksort', which is not stable,
\* so rows with equal keys may come out in any order
RECURSIVE SortOrders(_, _, _)
SortOrders(rows, col, S) ==
    IF S = {} THEN {<<>>}
    ELSE LET m == Min({rows[i][col] : i \in S})
         IN  UNION {{<<i>> \o t : t \in SortOrders(rows, col, S \ {i})} :
                    i \in {j \in S : rows[j][col] = m}}

\* SortValues without the sort
SortValuesNoSort(df, col) == {df}

\* df.sort_values(by = col).reset_index(drop = True), one possible outcome
\* per order
SortValues(df, col) ==
    {[columns |-> df.columns,
      rows |-> [i \in DOMAIN o |-> df.rows[o[i]]],
      text |-> df.text] : o \in SortOrders(df.rows, col, DOMAIN df.rows)}

\* SplitIndex with test_size in place of 1 - test_size
SplitIndexTestShare(n, test_size) == FloorMul(n, test_size)

\* int(len(self.data) * (1 - self.test_size))
SplitIndex(n, test_size) ==
    FloorMul(n, [num |-> test_size.den - test_size.num, den |-> test_size.den])

\* Cleaner.partition_data after the sort: (x_train, x_test, y_train, y_test)
Partition(sorted, test_size) ==
    LET y == Column(sorted, "is_alcista")
        x == Drop(sorted, {"is_alcista"})
        n == Len(sorted.rows)
        split_index == SplitIndex(n, test_size)
    IN  [x_train |-> ILocSlice(x, 0, split_index),
         x_test |-> ILocSlice(x, split_index, n),
         y_train |-> Slice(y, 0, split_index),
         y_test |-> Slice(y, split_index, n)]

\* day_mapping of encode_dia_semana_ordinal; Series.map gives NaN for a
\* value that is not a key
DayMapping(v) ==
    IF \E d \in DOMAIN DayNames : DayNames[d] = v
    THEN DayCodes[CHOOSE d \in DOMAIN DayNames : DayNames[d] = v]
    ELSE NaN

\* x['dia_semana'] = x['dia_semana'].map(day_mapping)
EncodeColumn(df) ==
    LET rows == [i \in DOMAIN df.rows |->
                    [c \in df.columns |->
                        IF c = "dia_semana" THEN DayMapping(df.rows[i][c])
                        ELSE df.rows[i][c]]]
    IN  [columns |-> df.columns,
         rows |-> rows,
         text |-> IF \E i \in DOMAIN rows : rows[i].dia_semana = NaN
                  THEN df.text \cup {"dia_semana"}
                  ELSE df.text \ {"dia_semana"}]

\* Cleaner.encode_dia_semana_ordinal on (x_train, x_test): nothing is done
\* when x_train has no column dia_semana
EncodeDiaSemanaOrdinal(xtr, xte) ==
    IF "dia_semana" \notin xtr.columns
    THEN [x_train |-> xtr, x_test |-> xte]
    ELSE [x_train |-> EncodeColumn(xtr), x_test |-> EncodeColumn(xte)]

temporal_columns == {"date", "fecha", "hora_inicial", "hora_final", "dia",
                     "mes", "anio", "dia_semana"}

\* HandleTemporalColumns dropping from the train split only
HandleTemporalColumnsTrainOnly(xtr, xte, include_data_time) ==
    IF include_data_time THEN [x_train |-> xtr, x_test |-> xte]
    ELSE [x_train |-> Drop(xtr, temporal_columns \cap xtr.columns),
          x_test |-> xte]

\* Cleaner._handle_temporal_columns on (x_train, x_test)
HandleTemporalColumns(xtr, xte, include_data_time) ==
    IF include_data_time THEN [x_train |-> xtr, x_test |-> xte]
    ELSE LET columns_to_drop == {col \in temporal_columns : col \in xtr.columns}
         IN  IF columns_to_drop # {}
             THEN [x_train |-> Drop(xtr, columns_to_drop),
                   x_test |-> Drop(xte, columns_to_drop)]
             ELSE [x_train |-> xtr, x_test |-> xte]

----------------------------------------------------------------------------
(* src/limpieza/src/balance_clases.py: BalanceadorClases                   *)

\* value of a synthetic cell: an interpolation of real cells, marked 0 (real
\* entrada_vela cells are positive)
SyntheticRow(columns) ==
    [c \in columns |-> IF c \in {"entrada_vela", "salida_vela"} THEN <<0>>
                       ELSE IF c \in TextColumns THEN "0" ELSE 0]

\* y.value_counts(): idxmin / idxmax and their counts
MinorityClass(y) ==
    CHOOSE c \in Range(y) : \A d \in Range(y) : Count(y, c) <= Count(y, d)

MajorityClass(y) ==
    CHOOSE c \in Range(y) : \A d \in Range(y) : Count(y, c) >= Count(y, d)

\* Smote as an undersampler: majority rows are removed from the end until
\* the ratio is reached, and no row is made
SmoteUndersample(X, y, k_neighbors, sampling_strategy) ==
    LET majority_class == MajorityClass(y)
        keep == CHOOSE n \in 0..Len(y) :
                    /\ \A i \in (n + 1)..Len(y) : y[i] = majority_class
                    /\ \/ n = 0
                       \/ y[n] # majority_class
                       \/ Count(y, MinorityClass(y)) * sampling_strategy.den
                              < sampling_strategy.num
                                * Count(Slice(y, 0, n), majority_class)
    IN  [raised |-> FALSE,
         X |-> [columns |-> X.columns, rows |-> Slice(X.rows, 0, keep),
                text |-> X.text],
         y |-> Slice(y, 0, keep)]

\* SMOTE(k_neighbors, sampling_strategy, random_state = 42).fit_resample(X, y)
\* of imbalanced-learn, for a binary y with minority < majority * strategy:
\*  - X must be all finite numbers, else ValueError;
\*  - n_samples = int(majority * strategy - minority) rows are to be made for
\*    the minority class, and n_samples <= 0 is a ValueError;
\*  - the k_neighbors + 1 nearest minority rows are looked up, a ValueError
\*    when the minority class has fewer rows than that;
\*  - the synthetic rows are stacked under the unchanged X and y.
\* smote_k records the k_neighbors the oversampler was built with.
Smote(X, y, k_neighbors, sampling_strategy) ==
    LET minority_class == MinorityClass(y)
        minority_count == Count(y, minority_class)
        majority_count == Count(y, MajorityClass(y))
        n_samples == FloorMul(majority_count, sampling_strategy) - minority_count
    IN  IF X.text # {} \/ n_samples <= 0 \/ minority_count < k_neighbors + 1
        THEN [raised |-> TRUE, type |-> "ValueError", smote_k |-> k_neighbors]
        ELSE [raised |-> FALSE,
              smote_k |-> k_neighbors,
              X |-> [columns |-> X.columns,
                     rows |-> X.rows \o
                              [i \in 1..n_samples |-> SyntheticRow(X.columns)],
                     text |-> X.text],
              y |-> y \o [i \in 1..n_samples |-> minority_class]]

\* ApplySmoteTemporalSafe without the test current_ratio >= sampling_strategy
ApplySmoteNoSkip(df, target_column, sampling_strategy, k_neighbors) ==
    LET X == Drop(df, {target_column})
        y == Column(df, target_column)
    IN  IF y = <<>>
        THEN [raised |-> TRUE, type |-> "ValueError"]
        ELSE
        LET minority_count == Count(y, MinorityClass(y))
            k == IF k_neighbors >= minority_count
                 THEN Max(1, minority_count - 1) ELSE k_neighbors
        IN  Smote(X, y, k, sampling_strategy)

\* ApplySmoteTemporalSafe without the adjustment of k_neighbors
ApplySmoteNoClamp(df, target_column, sampling_strategy, k_neighbors) ==
    LET X == Drop(df, {target_column})
        y == Column(df, target_column)
    IN  IF y = <<>>
        THEN [raised |-> TRUE, type |-> "ValueError"]
        ELSE
        LET minority_count == Count(y, MinorityClass(y))
            majority_count == Count(y, MajorityClass(y))
        IN  IF minority_count * sampling_strategy.den
                   >= sampling_strategy.num * majority_count
            THEN [raised |-> FALSE, X |-> X, y |-> y]
            ELSE Smote(X, y, k_neighbors, sampling_strategy)

\* BalanceadorClases.apply_smote_temporal_safe on self.data = df
ApplySmoteTemporalSafe(df, target_column, sampling_strategy, k_neighbors) ==
    LET X == Drop(df, {target_column})
        y == Column(df, target_column)
    IN  IF y = <<>>
        THEN [raised |-> TRUE, type |-> "ValueError"]   \* idxmin of no class
        ELSE
        LET minority_count == Count(y, MinorityClass(y))
            majority_count == Count(y, MajorityClass(y))
            max_k_neighbors == minority_count - 1
            k == IF k_neighbors >= minority_count
                 THEN Max(1, max_k_neighbors) ELSE k_neighbors
        IN  \* current_ratio >= sampling_strategy
            IF minority_count * sampling_strategy.den
                   >= sampling_strategy.num * majority_count
            THEN [raised |-> FALSE, X |-> X, y |-> y]
            ELSE Smote(X, y, k, sampling_strategy)

\* X.copy() with the column is_alcista = y added
WithTarget(X, y) ==
    [columns |-> X.columns \cup {"is_alcista"},
     rows |-> [i \in DOMAIN X.rows |->
                 [c \in X.columns \cup {"is_alcista"} |->
                     IF c = "is_alcista" THEN y[i] ELSE X.rows[i][c]]],
     text |-> X.text]

\* defaults of Cleaner._balance_classes
DefaultSamplingStrategy == [num |-> 4, den |-> 5]
DefaultKNeighbors == 3

----------------------------------------------------------------------------
(* Initial states: one per entry point and input                           *)

NoFiles == [x_train |-> NoneTable, x_test |-> NoneTable, y_train |-> <<>>,
            y_test |-> <<>>, balanced |-> NoneTable, written |-> {}]

InitCommon ==
    /\ groups = <<>>
    /\ data_final = <<>>
    /\ dataframe = NoneTable
    /\ x_train = NoneTable
    /\ x_test = NoneTable
    /\ y_train = <<>>
    /\ y_test = <<>>
    /\ data_balanced = NoneTable
    /\ saved = NoFiles
    /\ trace = <<>>
    /\ errlog = <<>>
    /\ exc = NoException
    /\ result = "running"
    /\ smote_call = [called |-> FALSE]
    /\ smote_return = [called |-> FALSE]
    /\ tasks = <<>>
    /\ rigth_request_count = 0
    /\ wrong_request_count = 0
    /\ responses = <<>>

\* src/main.py main(): PipelineOrchestrator().run_pipeline()
InitPipeline ==
    /\ semaphore = 0
    /\ prog = "pipeline"
    /\ pc = "run_scraping"
    /\ config \in GrouperConfigs
    /\ candles = <<>>
    /\ data_grouped = NoneTable
    /\ data = NoneTable
    /\ InitCommon

\* src/limpieza/src/main.py __main__: Cleaner(...) has loaded data_grouped.csv
InitCleaner ==
    /\ semaphore = 0
    /\ prog = "cleaner"
    /\ pc = "c_explore"
    /\ config \in [test_size : TestSizes, include_data_time : BOOLEAN]
    /\ candles = <<>>
    /\ data_grouped \in DatedFiles \cup UndatedFiles
    /\ data = data_grouped
    /\ InitCommon

\* src/limpieza/src/balance_clases.py __main__: BalanceadorClases().main(...)
InitBalancer ==
    /\ semaphore = 0
    /\ prog = "balancer"
    /\ pc = "b_load"
    /\ config \in [sampling_strategy : Strategies, k_neighbors : 1..MaxK,
                   output_file_path : {None, "data_grouped_balanced.csv"}]
    /\ candles = <<>>
    /\ data_grouped \in BalancerFiles
    /\ data = NoneTable
    /\ InitCommon

\* Consulter(max_retries, timeout, max_concurrent), before main(url_list);
\* the URLs are numbered 1..url_count
InitConsulter ==
    /\ prog = "consulter"
    /\ pc = "s_main"
    /\ config \in [max_retries : 0..MaxRetries,
                    max_concurrent : 1..MaxConcurrent,
                    url_count : 0..MaxUrls]
    /\ semaphore = config.max_concurrent
    /\ candles = <<>>
    /\ data_grouped = NoneTable
    /\ data = NoneTable
    /\ InitCommon

Init == InitPipeline \/ InitCleaner \/ InitBalancer \/ InitConsulter

----------------------------------------------------------------------------
(* src/main.py: PipelineOrchestrator                                       *)

\* run_pipeline step 1, run_scraping: ScrapingMain(...).main() writes
\* bitcoin_candles.csv from what the exchange answers, or raises
RunScraping ==
    /\ UNCHANGED cvars
    /\ UNCHANGED <<smote_call, smote_return>>
    /\ pc = "run_scraping"
    /\ IF ~EXECUTE_SCRAPING
       THEN /\ pc' = "run_grouper"
            /\ UNCHANGED <<candles, trace, exc, result>>
       ELSE /\ trace' = Append(trace, "scraping")
            /\ \/ /\ candles' \in CandleFiles
                  /\ pc' = "run_grouper"
                  /\ UNCHANGED <<exc, result>>
               \/ /\ Raise("Exception")
                  /\ UNCHANGED candles
    /\ UNCHANGED <<prog, config, groups, data_final, dataframe, data_grouped,
                   data, x_train, x_test, y_train, y_test, data_balanced,
                   saved, errlog>>

\* run_pipeline step 2, run_grouper: Grouper(**GROUPER_CONFIG), whose
\* constructor loads bitcoin_candles.csv, then grouper.main() begins
RunGrouper ==
    /\ UNCHANGED cvars
    /\ UNCHANGED <<smote_call, smote_return>>
    /\ pc = "run_grouper"
    /\ IF ~EXECUTE_GROUPER
       THEN pc' = "run_cleaning" /\ UNCHANGED trace
       ELSE pc' = "g_create_groups" /\ trace' = Append(trace, "group")
    /\ UNCHANGED <<prog, config, candles, groups, data_final, dataframe,
                   data_grouped, data, x_train, x_test, y_train, y_test,
                   data_balanced, saved, errlog, exc, result>>

\* Grouper.main: groups = self._create_groups()
GCreateGroups ==
    /\ UNCHANGED cvars
    /\ UNCHANGED <<smote_call, smote_return>>
    /\ pc = "g_create_groups"
    /\ groups' = CreateGroups(Len(candles), config.candle_size_to_traing,
                              config.candle_to_predict)
    /\ data_final' = <<>>
    /\ pc' = IF groups' = <<>> THEN "g_date_column" ELSE "g_rows"
    /\ UNCHANGED <<prog, config, candles, dataframe, data_grouped, data,
                   x_train, x_test, y_train, y_test, data_balanced, saved,
                   trace, errlog, exc, result>>

\* one iteration of the loop of _create_dataframe_from_groups
GProcessGroup ==
    /\ UNCHANGED cvars
    /\ UNCHANGED <<smote_call, smote_return>>
    /\ pc = "g_rows"
    /\ LET g == groups[Len(data_final) + 1]
           idxs == RangeList(g.train_indices)
       IN  IF /\ \A p \in DOMAIN idxs : ValidILoc(candles, idxs[p])
              /\ ValidILoc(candles, g.predict_index)
           THEN /\ data_final' =
                       Append(data_final,
                              ProcessGroup(candles, g.train_indices,
                                           g.predict_index,
                                           config.candle_size_to_traing,
                                           config.percentage_return_threshold))
                /\ pc' = IF Len(data_final') = Len(groups)
                         THEN "g_date_column" ELSE "g_rows"
                /\ UNCHANGED <<exc, result>>
           ELSE /\ Raise("IndexError")
                /\ UNCHANGED data_final
    /\ UNCHANGED <<prog, config, candles, groups, dataframe, data_grouped,
                   data, x_train, x_test, y_train, y_test, data_balanced,
                   saved, trace, errlog>>

\* dataframe = pd.DataFrame(data_final), then _create_date_column: a frame
\* without columns has no 'fecha'
GCreateDateColumn ==
    /\ UNCHANGED cvars
    /\ UNCHANGED <<smote_call, smote_return>>
    /\ pc = "g_date_column"
    /\ LET df == DataFrame(data_final)
       IN  IF "fecha" \in df.columns
           THEN /\ dataframe' = CreateDateColumn(df)
                /\ pc' = "g_save"
                /\ UNCHANGED <<exc, result>>
           ELSE /\ dataframe' = df
                /\ Raise("KeyError")
    /\ UNCHANGED <<prog, config, candles, groups, data_final, data_grouped,
                   data, x_train, x_test, y_train, y_test, data_balanced,
                   saved, trace, errlog>>

\* Grouper._save_data and the end of Grouper.main; run_grouper returns
GSaveData ==
    /\ UNCHANGED cvars
    /\ UNCHANGED <<smote_call, smote_return>>
    /\ pc = "g_save"
    /\ data_grouped' = dataframe
    /\ pc' = "run_cleaning"
    /\ UNCHANGED <<prog, config, candles, groups, data_final, dataframe,
                   data, x_train, x_test, y_train, y_test, data_balanced,
                   saved, trace, errlog, exc, result>>

\* run_pipeline step 3, run_cleaning: Cleaner(**CLEANING_CONFIG) is a
\* TypeError when a key is no parameter of Cleaner.__init__
RunCleaning ==
    /\ UNCHANGED cvars
    /\ UNCHANGED <<smote_call, smote_return>>
    /\ pc = "run_cleaning"
    /\ IF ~EXECUTE_CLEANING
       THEN /\ pc' = "done"
            /\ result' = "success"
            /\ UNCHANGED <<config, data, trace, exc>>
       ELSE /\ trace' = Append(trace, "cleaning")
            /\ IF CLEANING_CONFIG \subseteq CleanerInitParams
               THEN /\ config' = [test_size |-> [num |-> 1, den |-> 5],
                                  include_data_time |-> FALSE]
                    /\ data' = data_grouped
                    /\ pc' = "c_explore"
                    /\ UNCHANGED <<exc, result>>
               ELSE /\ Raise("TypeError")
                    /\ UNCHANGED <<config, data>>
    /\ UNCHANGED <<prog, candles, groups, data_final, dataframe, data_grouped,
                   x_train, x_test, y_train, y_test, data_balanced, saved,
                   errlog>>

\* the stage named by an except block of run_scraping / run_grouper /
\* run_cleaning
StageOfExcept(p) ==
    CASE p = "except_scraping" -> "scraping"
      [] p = "except_grouper" -> "grouper"
      [] OTHER -> "cleaning"

\* except Exception as e: logger.error("Error in <stage> process: ..."); raise
StageExcept ==
    /\ UNCHANGED cvars
    /\ UNCHANGED <<smote_call, smote_return>>
    /\ pc \in {"except_scraping", "except_grouper", "except_cleaning"}
    /\ errlog' = Append(errlog, StageOfExcept(pc))
    /\ pc' = "except_pipeline"
    /\ UNCHANGED <<prog, config, candles, groups, data_final, dataframe,
                   data_grouped, data, x_train, x_test, y_train, y_test,
                   data_balanced, saved, trace, exc, result>>

\* run_pipeline: except Exception as e: logger.error("Pipeline failed ...");
\* raise -- the exception reaches the caller
PipelineExcept ==
    /\ UNCHANGED cvars
    /\ UNCHANGED <<smote_call, smote_return>>
    /\ pc = "except_pipeline"
    /\ errlog' = Append(errlog, "pipeline")
    /\ pc' = "crashed"
    /\ result' = "raised"
    /\ UNCHANGED <<prog, config, candles, groups, data_final, dataframe,
                   data_grouped, data, x_train, x_test, y_train, y_test,
                   data_balanced, saved, trace, exc>>

----------------------------------------------------------------------------
(* src/limpieza/src/main.py: Cleaner.main                                  *)

\* CleanerNext with the temporal columns handled before the encoding
CleanerNextFilterFirst(p) ==
    CASE p = "c_explore" -> "c_partition"
      [] p = "c_partition" -> "c_filter"
      [] p = "c_filter" -> "c_encode"
      [] p = "c_encode" -> "c_balance"
      [] p = "c_balance" -> "c_save"
      [] OTHER -> "done"

\* the statement of Cleaner.main that follows the one at p
CleanerNext(p) ==
    CASE p = "c_explore" -> "c_partition"
      [] p = "c_partition" -> "c_encode"
      [] p = "c_encode" -> "c_filter"
      [] p = "c_filter" -> "c_balance"
      [] p = "c_balance" -> "c_save"
      [] OTHER -> "done"

\* self._explore_data(): logging only
CExploreData ==
    /\ UNCHANGED cvars
    /\ UNCHANGED <<smote_call, smote_return>>
    /\ pc = "c_explore"
    /\ trace' = Append(trace, "explore")
    /\ pc' = CleanerNext(pc)
    /\ UNCHANGED <<prog, config, candles, groups, data_final, dataframe,
                   data_grouped, data, x_train, x_test, y_train, y_test,
                   data_balanced, saved, errlog, exc, result>>

\* x_train, x_test, y_train, y_test = self.partition_data()
CPartitionData ==
    /\ UNCHANGED cvars
    /\ UNCHANGED <<smote_call, smote_return>>
    /\ pc = "c_partition"
    /\ trace' = Append(trace, "split")
    /\ IF "date" \notin data.columns
       THEN /\ Raise("KeyError")
            /\ UNCHANGED <<data, x_train, x_test, y_train, y_test>>
       ELSE \E sorted \in SortValues(data, "date") :
                LET p == Partition(sorted, config.test_size)
                IN  /\ data' = sorted
                    /\ x_train' = p.x_train
                    /\ x_test' = p.x_test
                    /\ y_train' = p.y_train
                    /\ y_test' = p.y_test
                    /\ pc' = CleanerNext(pc)
                    /\ UNCHANGED <<exc, result>>
    /\ UNCHANGED <<prog, config, candles, groups, data_final, dataframe,
                   data_grouped, data_balanced, saved, errlog>>

\* self.encode_dia_semana_ordinal(): train, then test
CEncodeDiaSemana ==
    /\ UNCHANGED cvars
    /\ UNCHANGED <<smote_call, smote_return>>
    /\ pc = "c_encode"
    /\ trace' = Append(trace, "encode")
    /\ LET r == EncodeDiaSemanaOrdinal(x_train, x_test)
       IN  x_train' = r.x_train /\ x_test' = r.x_test
    /\ pc' = CleanerNext(pc)
    /\ UNCHANGED <<prog, config, candles, groups, data_final, dataframe,
                   data_grouped, data, y_train, y_test, data_balanced, saved,
                   errlog, exc, result, smote_call, smote_return>>

\* self._handle_temporal_columns(): train, then test
CHandleTemporalColumns ==
    /\ UNCHANGED cvars
    /\ UNCHANGED <<smote_call, smote_return>>
    /\ pc = "c_filter"
    /\ trace' = Append(trace, "filter")
    /\ LET r == HandleTemporalColumns(x_train, x_test,
                                      config.include_data_time)
       IN  x_train' = r.x_train /\ x_test' = r.x_test
    /\ pc' = CleanerNext(pc)
    /\ UNCHANGED <<prog, config, candles, groups, data_final, dataframe,
                   data_grouped, data, y_train, y_test, data_balanced, saved,
                   errlog, exc, result, smote_call, smote_return>>

\* BalanceClasses with the balanced rows assigned to the test split
BalanceClassesIntoTest(xtr, ytr, xte, yte, sampling_strategy, k_neighbors) ==
    LET r == ApplySmoteTemporalSafe(WithTarget(xtr, ytr), "is_alcista",
                                    sampling_strategy, k_neighbors)
    IN  IF r.raised
        THEN [raised |-> TRUE, type |-> r.type]
        ELSE [raised |-> FALSE,
              data_balanced |-> WithTarget(r.X, r.y),
              x_train |-> xtr, y_train |-> ytr,
              x_test |-> r.X, y_test |-> r.y]

\* Cleaner._balance_classes on (x_train, y_train, x_test, y_test): the new
\* splits and balanceador.data_balanced, or the exception raised
BalanceClasses(xtr, ytr, xte, yte, sampling_strategy, k_neighbors) ==
    LET temp_df == WithTarget(xtr, ytr)
        r == ApplySmoteTemporalSafe(temp_df, "is_alcista", sampling_strategy,
                                    k_neighbors)
    IN  IF r.raised
        THEN [raised |-> TRUE, type |-> r.type]
        ELSE [raised |-> FALSE,
              data_balanced |-> WithTarget(r.X, r.y),
              x_train |-> r.X, y_train |-> r.y,
              x_test |-> xte, y_test |-> yte]

\* self._balance_classes()
CBalanceClasses ==
    /\ UNCHANGED cvars
    /\ pc = "c_balance"
    /\ trace' = Append(trace, "balance")
    /\ smote_call' = [called |-> TRUE, data |-> WithTarget(x_train, y_train),
                      sampling_strategy |-> DefaultSamplingStrategy,
                      k_neighbors |-> DefaultKNeighbors]
    /\ smote_return' = ApplySmoteTemporalSafe(WithTarget(x_train, y_train),
                            "is_alcista", DefaultSamplingStrategy,
                            DefaultKNeighbors)
    /\ LET r == BalanceClasses(x_train, y_train, x_test, y_test,
                               DefaultSamplingStrategy, DefaultKNeighbors)
       IN  IF r.raised
           THEN /\ Raise(r.type)
                /\ UNCHANGED <<x_train, y_train, x_test, y_test,
                               data_balanced>>
           ELSE /\ data_balanced' = r.data_balanced
                /\ x_train' = r.x_train
                /\ y_train' = r.y_train
                /\ x_test' = r.x_test
                /\ y_test' = r.y_test
                /\ pc' = CleanerNext(pc)
                /\ UNCHANGED <<exc, result>>
    /\ UNCHANGED <<prog, config, candles, groups, data_final, dataframe,
                   data_grouped, data, saved, errlog>>

\* self.save_data(); Cleaner.main returns (and, inside run_pipeline,
\* run_cleaning returns and the pipeline logs its successful completion)
CSaveData ==
    /\ UNCHANGED cvars
    /\ UNCHANGED <<smote_call, smote_return>>
    /\ pc = "c_save"
    /\ trace' = Append(trace, "persist")
    /\ saved' = [saved EXCEPT !.x_train = x_train, !.x_test = x_test,
                              !.y_train = y_train, !.y_test = y_test,
                              !.written = {"x_train", "x_test", "y_train",
                                           "y_test"}]
    /\ pc' = CleanerNext(pc)
    /\ result' = "success"
    /\ UNCHANGED <<prog, config, candles, groups, data_final, dataframe,
                   data_grouped, data, x_train, x_test, y_train, y_test,
                   data_balanced, errlog, exc>>

----------------------------------------------------------------------------
(* src/limpieza/src/balance_clases.py: BalanceadorClases.main              *)

\* step 1: self.load_data(input_file_path)
BLoadData ==
    /\ UNCHANGED cvars
    /\ UNCHANGED <<smote_call, smote_return>>
    /\ pc = "b_load"
    /\ trace' = Append(trace, "load")
    /\ \/ /\ data' = data_grouped
          /\ pc' = "b_before"
          /\ UNCHANGED <<exc, result>>
       \/ /\ Raise("FileNotFoundError")
          /\ UNCHANGED data
    /\ UNCHANGED <<prog, config, candles, groups, data_final, dataframe,
                   data_grouped, x_train, x_test, y_train, y_test,
                   data_balanced, saved, errlog>>

\* step 2: self._analyze_class_distribution(self.data, ...)
BAnalyzeBefore ==
    /\ UNCHANGED cvars
    /\ UNCHANGED <<smote_call, smote_return>>
    /\ pc = "b_before"
    /\ trace' = Append(trace, "distribution_before")
    /\ IF "is_alcista" \in data.columns
       THEN pc' = "b_smote" /\ UNCHANGED <<exc, result>>
       ELSE Raise("ValueError")
    /\ UNCHANGED <<prog, config, candles, groups, data_final, dataframe,
                   data_grouped, data, x_train, x_test, y_train, y_test,
                   data_balanced, saved, errlog>>

\* step 3: self.apply_smote_temporal_safe(...); the returned pair is not
\* assigned
BApplySmote ==
    /\ UNCHANGED cvars
    /\ pc = "b_smote"
    /\ trace' = Append(trace, "smote")
    /\ smote_call' = [called |-> TRUE, data |-> data,
                      sampling_strategy |-> config.sampling_strategy,
                      k_neighbors |-> config.k_neighbors]
    /\ LET r == ApplySmoteTemporalSafe(data, "is_alcista",
                                       config.sampling_strategy,
                                       config.k_neighbors)
       IN  /\ smote_return' = r
           /\ IF r.raised
              THEN Raise(r.type)
              ELSE pc' = "b_after" /\ UNCHANGED <<exc, result>>
    /\ UNCHANGED <<prog, config, candles, groups, data_final, dataframe,
                   data_grouped, data, x_train, x_test, y_train, y_test,
                   data_balanced, saved, errlog>>

\* steps 4 to 6: _analyze_class_distribution(self.data_balanced, ...) reads
\* data.columns, an AttributeError on None; then show_balancing_comparison
\* and save_balanced_data
BReport ==
    /\ UNCHANGED cvars
    /\ UNCHANGED <<smote_call, smote_return>>
    /\ pc = "b_after"
    /\ trace' = Append(trace, "distribution_after")
    /\ IF data_balanced = NoneTable
       THEN /\ Raise("AttributeError")
            /\ UNCHANGED saved
       ELSE /\ saved' = IF config.output_file_path # None
                        THEN [saved EXCEPT !.balanced = data_balanced,
                                           !.written = {"balanced"}]
                        ELSE saved
            /\ pc' = "done"
            /\ result' = "success"
            /\ UNCHANGED exc
    /\ UNCHANGED <<prog, config, candles, groups, data_final, dataframe,
                   data_grouped, data, x_train, x_test, y_train, y_test,
                   data_balanced, errlog>>

----------------------------------------------------------------------------
(* src/scraping/src/consulter.py: Consulter                                *)

\* a task of process_urls: where its innermost fetch_url_with_retry call is,
\* its retry_count, the permits its nested calls hold, and (history) the
\* outcomes of the requests it has completed
NewTask == [pc |-> "acquire", retry_count |-> 0, held |-> 0,
            attempts |-> <<>>, result |-> "pending"]

\* what a request can come to: status 200 with a JSON body, status 200 with
\* a body response.json() cannot decode, or another status, a timeout or an
\* error
Outcomes == {"ok", "undecodable", "failed"}

\* tasks = [fetch_url_with_retry(session, url) for url in url_list]; gather
\* starts them
ProcessUrls ==
    /\ prog = "consulter"
    /\ pc = "s_main"
    /\ tasks' = [u \in 1..config.url_count |-> NewTask]
    /\ pc' = "s_gather"
    /\ trace' = Append(trace, "process_urls")
    /\ UNCHANGED <<prog, config, result, semaphore, rigth_request_count,
                   wrong_request_count, responses>>
    /\ UNCHANGED pvars

\* Acquire without waiting for a free permit
AcquireUnbounded(u) ==
    /\ prog = "consulter"
    /\ pc = "s_gather"
    /\ tasks[u].pc = "acquire"
    /\ semaphore' = semaphore - 1
    /\ tasks' = [tasks EXCEPT ![u].pc = "get", ![u].held = @ + 1]
    /\ UNCHANGED <<prog, pc, config, result, trace, rigth_request_count,
                   wrong_request_count, responses>>
    /\ UNCHANGED pvars

\* async with self.semaphore: the call goes on when a permit is free, takes
\* it and issues session.get(url)
Acquire(u) ==
    /\ prog = "consulter"
    /\ pc = "s_gather"
    /\ tasks[u].pc = "acquire"
    /\ semaphore > 0
    /\ semaphore' = semaphore - 1
    /\ tasks' = [tasks EXCEPT ![u].pc = "get", ![u].held = @ + 1]
    /\ UNCHANGED <<prog, pc, config, result, trace, rigth_request_count,
                   wrong_request_count, responses>>
    /\ UNCHANGED pvars

\* ShouldRetry with <= in place of <
ShouldRetryInclusive(retry_count, max_retries) == retry_count <= max_retries

\* if retry_count < self.max_retries
ShouldRetry(retry_count, max_retries) == retry_count < max_retries

\* the request of task u comes to an end.  A return leaves every nested
\* call of the task, each giving its permit back.
Respond(u) ==
    /\ prog = "consulter"
    /\ pc = "s_gather"
    /\ tasks[u].pc = "get"
    /\ \E outcome \in Outcomes :
        /\ rigth_request_count' =
               IF outcome \in {"ok", "undecodable"}
               THEN rigth_request_count + 1 ELSE rigth_request_count
        /\ IF outcome = "ok"
           THEN /\ tasks' = [tasks EXCEPT
                                ![u].pc = "done", ![u].held = 0,
                                ![u].attempts = Append(@, outcome),
                                ![u].result = "json"]
                /\ semaphore' = semaphore + tasks[u].held
                /\ UNCHANGED wrong_request_count
           ELSE IF ShouldRetry(tasks[u].retry_count, config.max_retries)
           THEN /\ tasks' = [tasks EXCEPT
                                ![u].pc = "sleep",
                                ![u].attempts = Append(@, outcome)]
                /\ UNCHANGED <<semaphore, wrong_request_count>>
           ELSE /\ tasks' = [tasks EXCEPT
                                ![u].pc = "done", ![u].held = 0,
                                ![u].attempts = Append(@, outcome),
                                ![u].result = None]
                /\ semaphore' = semaphore + tasks[u].held
                /\ wrong_request_count' = wrong_request_count + 1
    /\ UNCHANGED <<prog, pc, config, result, trace, responses>>
    /\ UNCHANGED pvars

\* await asyncio.sleep(1) is over:
\* return await self.fetch_url_with_retry(session, url, retry_count + 1),
\* called inside the async with block of the caller
Sleep(u) ==
    /\ prog = "consulter"
    /\ pc = "s_gather"
    /\ tasks[u].pc = "sleep"
    /\ tasks' = [tasks EXCEPT ![u].pc = "acquire", ![u].retry_count = @ + 1]
    /\ UNCHANGED <<prog, pc, config, result, trace, semaphore,
                   rigth_request_count, wrong_request_count, responses>>
    /\ UNCHANGED pvars

\* the responses that are not None, in the order of url_list
RECURSIVE NotNone(_, _)
NotNone(ts, u) ==
    IF u > Len(ts) THEN <<>>
    ELSE (IF ts[u].result = "json" THEN <<u>> ELSE <<>>) \o NotNone(ts, u + 1)

\* asyncio.gather returns when every task is done; process_urls returns the
\* responses that are not None and Consulter.main returns them
Gather ==
    /\ prog = "consulter"
    /\ pc = "s_gather"
    /\ \A u \in DOMAIN tasks : tasks[u].pc = "done"
    /\ responses' = NotNone(tasks, 1)
    /\ pc' = "done"
    /\ result' = "success"
    /\ UNCHANGED <<prog, config, trace, semaphore, tasks,
                   rigth_request_count, wrong_request_count>>
    /\ UNCHANGED pvars

----------------------------------------------------------------------------

Next ==
    \/ RunScraping
    \/ RunGrouper
    \/ GCreateGroups
    \/ GProcessGroup
    \/ GCreateDateColumn
    \/ GSaveData
    \/ RunCleaning
    \/ StageExcept
    \/ PipelineExcept
    \/ CExploreData
    \/ CPartitionData
    \/ CEncodeDiaSemana
    \/ CHandleTemporalColumns
    \/ CBalanceClasses
    \/ CSaveData
    \/ BLoadData
    \/ BAnalyzeBefore
    \/ BApplySmote
    \/ BReport
    \/ ProcessUrls
    \/ \E u \in DOMAIN tasks : Acquire(u)
    \/ \E u \in DOMAIN tasks : Respond(u)
    \/ \E u \in DOMAIN tasks : Sleep(u)
    \/ Gather

Spec == Init /\ [][Next]_vars

----------------------------------------------------------------------------
(* Properties                                                              *)

\* the grouper has run _create_groups
GroupsCreated ==
    prog = "pipeline" /\ "group" \in Range(trace) /\ pc # "g_create_groups"

\* max(0, N - W - F)
WindowCount ==
    Max(0, Len(candles) - config.candle_size_to_traing
                        - config.candle_to_predict)

\* C1: for N candles, window_size W >= 1 and future_offset F >= 0,
\* _create_groups yields exactly max(0, N - W - F) windows, the j-th one
\* starting at index j - 1, and the dataframe built from them has exactly
\* that many rows.
C1_WindowCount ==
    GroupsCreated =>
        /\ Len(groups) = WindowCount
        /\ \A j \in DOMAIN groups : groups[j].train_indices.start = j - 1
        /\ pc \in {"g_save", "run_cleaning"} =>
               Len(dataframe.rows) = WindowCount

\* C1 witness: a dataframe of two rows was built (N = 4, W = 1, F = 1)
C1_Witness ==
    /\ pc = "g_save"
    /\ Len(dataframe.rows) = 2
    /\ config.candle_to_predict = 1

\* C2: the row of window start i = j - 1 has is_alcista = 1 exactly when
\* (future_open - last_close) / last_close > threshold, and 0 otherwise
\* (equality included), last_close being the close of candle i + W - 1 and
\* future_open the open of candle i + W + F - 1.  The quotient is compared
\* exactly; for last_close = 0 it is the float quotient, +inf when
\* future_open > 0.
C2_Label ==
    prog = "pipeline" =>
        \A j \in DOMAIN data_final :
            LET i == j - 1
                W == config.candle_size_to_traing
                F == config.candle_to_predict
                T == config.percentage_return_threshold
                last_close == candles[(i + W - 1) + 1].salida_vela_1
                future_open == candles[(i + W + F - 1) + 1].entrada_vela_1
                above ==
                    \/ /\ last_close > 0
                       /\ (future_open - last_close) * T.den
                              > T.num * last_close
                    \/ last_close = 0 /\ future_open > 0
            IN  data_final[j].is_alcista = IF above THEN 1 ELSE 0

\* C2 witness: one row labelled 1, and one labelled 0 whose return equals
\* the threshold
C2_Witness ==
    /\ prog = "pipeline"
    /\ \E j \in DOMAIN data_final : data_final[j].is_alcista = 1
    /\ \E j \in DOMAIN data_final :
           LET W == config.candle_size_to_traing
               F == config.candle_to_predict
               T == config.percentage_return_threshold
               last_close == candles[j - 1 + W].salida_vela_1
               future_open == candles[j - 1 + W + F].entrada_vela_1
           IN  /\ data_final[j].is_alcista = 0
               /\ last_close > 0
               /\ (future_open - last_close) * T.den = T.num * last_close

\* row i of the table without the label column
Features(df, i) == [c \in df.columns \ {"is_alcista"} |-> df.rows[i][c]]

C4_NoLeakage ==
    (prog = "cleaner" /\ pc \in {"c_encode", "c_filter"}) =>
        \A i \in DOMAIN x_train.rows : \A j \in DOMAIN x_test.rows :
            x_train.rows[i].date <= x_test.rows[j].date

\* C4 witness: an input out of time order with equal dates was split, and
\* the last train row and the first test row have the same date
C4_Witness ==
    /\ prog = "cleaner"
    /\ pc = "c_encode"
    /\ \E i \in 1..(Len(data_grouped.rows) - 1) :
           data_grouped.rows[i].date > data_grouped.rows[i + 1].date
    /\ x_train.rows # <<>>
    /\ x_test.rows # <<>>
    /\ x_train.rows[Len(x_train.rows)].date = x_test.rows[1].date

\* minority_count and majority_count of a label list: the least and the
\* greatest number of rows of a class
ClassSizes(y) == {Count(y, c) : c \in Range(y)}
MinorityCount(y) == Min(ClassSizes(y))
MajorityCount(y) == CHOOSE m \in ClassSizes(y) : \A e \in ClassSizes(y) : m >= e

\* the labels given to the last call of apply_smote_temporal_safe
CallLabels == Column(smote_call.data, "is_alcista")

\* minority_count / majority_count >= sampling_strategy at that call
CallRatioReached ==
    MinorityCount(CallLabels) * smote_call.sampling_strategy.den
        >= smote_call.sampling_strategy.num * MajorityCount(CallLabels)

\* C5: whenever minority_count / majority_count >= sampling_strategy,
\* apply_smote_temporal_safe returns the input features and labels
\* unchanged, row for row, whatever k_neighbors and minority_count are; the
\* Cleaner then keeps its train split as it was.
C5_FallbackA ==
    (smote_call.called /\ CallLabels # <<>> /\ CallRatioReached) =>
        /\ ~smote_return.raised
        /\ smote_return.X = Drop(smote_call.data, {"is_alcista"})
        /\ smote_return.y = CallLabels
        /\ (prog = "cleaner" /\ pc = "c_save") =>
               /\ x_train = Drop(smote_call.data, {"is_alcista"})
               /\ y_train = CallLabels

\* C5 witness: a call with both classes present, the ratio reached and
\* k_neighbors >= minority_count has returned
C5_Witness ==
    /\ smote_call.called
    /\ CallLabels # <<>>
    /\ CallRatioReached
    /\ MinorityCount(CallLabels) < MajorityCount(CallLabels)
    /\ smote_call.k_neighbors >= MinorityCount(CallLabels)
    /\ ~smote_return.raised

\* the rows of (X, y) as one list
Labelled(X, y) == [i \in DOMAIN y |-> [x |-> X.rows[i], y |-> y[i]]]

\* a[i..] can be found, in order, in b[j..]
RECURSIVE SubseqFrom(_, _, _, _)
SubseqFrom(a, b, i, j) ==
    IF i > Len(a) THEN TRUE
    ELSE IF j > Len(b) THEN FALSE
    ELSE IF a[i] = b[j] THEN SubseqFrom(a, b, i + 1, j + 1)
    ELSE SubseqFrom(a, b, i, j + 1)

\* C6: when balancing completes, the output has at least as many rows as the
\* input and every original row (features and label) is in it unchanged, the
\* originals in their relative order; the Cleaner's train split is that
\* output.
C6_NoLoss ==
    (smote_call.called /\ ~smote_return.raised) =>
        LET before == Labelled(Drop(smote_call.data, {"is_alcista"}),
                               CallLabels)
            after == Labelled(smote_return.X, smote_return.y)
        IN  /\ Len(after) >= Len(before)
            /\ Len(smote_return.X.rows) = Len(smote_return.y)
            /\ SubseqFrom(before, after, 1, 1)
            /\ (prog = "cleaner" /\ pc = "c_save") =>
                   /\ x_train = smote_return.X
                   /\ y_train = smote_return.y

\* C6 witness: the Cleaner's train split has grown by synthetic rows
C6_Witness ==
    /\ prog = "cleaner"
    /\ pc = "c_save"
    /\ Len(x_train.rows) > Len(smote_call.data.rows)

\* C7 as claimed, on the inputs section 4.5 of the spec admits (numeric
\* features, at least two minority rows): whenever
\* minority_count / majority_count < sampling_strategy, balancing completes
\* and adds exactly floor(majority_count * sampling_strategy) -
\* minority_count rows, all of the minority class, also when that number is 0.
C7_Claim ==
    (/\ smote_call.called
     /\ CallLabels # <<>>
     /\ ~CallRatioReached
     /\ smote_call.data.text = {}
     /\ MinorityCount(CallLabels) >= 2) =>
        LET s == smote_call.sampling_strategy
            added == (MajorityCount(CallLabels) * s.num) \div s.den
                         - MinorityCount(CallLabels)
        IN  /\ ~smote_return.raised
            /\ Len(smote_return.y) = Len(CallLabels) + added
            /\ MajorityCount(smote_return.y) = MajorityCount(CallLabels)
            /\ MinorityCount(smote_return.y)
                   = (MajorityCount(CallLabels) * s.num) \div s.den

\* C8: _balance_classes changes only the train split: x_test and y_test are
\* the same before and after it, whether it oversamples, skips or raises.
C8_TestUntouched ==
    [][pc = "c_balance" => (x_test' = x_test /\ y_test' = y_test)]_vars

\* C8 witness: balancing has added rows to the train split beside a test
\* split that is not empty
C8_Witness ==
    /\ prog = "cleaner"
    /\ pc = "c_save"
    /\ Len(x_train.rows) > Len(smote_call.data.rows)
    /\ x_test.rows # <<>>

\* the place of a stage in the order scraping, group, cleaning (explore,
\* split, encode, filter, balance, persist)
StageRank(stage) ==
    CASE stage = "scraping" -> 0
      [] stage = "group" -> 1
      [] stage = "cleaning" -> 2
      [] stage = "explore" -> 3
      [] stage = "split" -> 4
      [] stage = "encode" -> 5
      [] stage = "filter" -> 6
      [] stage = "balance" -> 7
      [] stage = "persist" -> 8

\* C9: the stages run in the strict order group, split, encode, filter,
\* balance, persist: a stage is started only after the stages before it, no
\* stage runs twice, and balancing runs only after the split, encoding and
\* filtering of the same run.
C9_StageOrder ==
    prog \in {"pipeline", "cleaner"} =>
        /\ \A i, j \in DOMAIN trace :
               i < j => StageRank(trace[i]) < StageRank(trace[j])
        /\ "balance" \in Range(trace) =>
               {"split", "encode", "filter"} \subseteq Range(trace)
        /\ "persist" \in Range(trace) => "balance" \in Range(trace)
        /\ "cleaning" \in Range(trace) => "group" \in Range(trace)

\* C9 witness: a run of Cleaner.main went through every stage
C9_Witness ==
    /\ trace = <<"explore", "split", "encode", "filter", "balance", "persist">>
    /\ result = "success"

\* C10 as claimed: once a stage of run_pipeline or a step of Cleaner.main has
\* failed, no later stage or step is started, the run never reports success,
\* and the failure that reaches the caller names the failing stage.
C10_Claim ==
    (prog \in {"pipeline", "cleaner"} /\ exc # NoException) =>
        /\ pc \in {"except_scraping", "except_grouper", "except_cleaning",
                    "except_pipeline", "crashed"}
        /\ result # "success"
        /\ result = "raised" => exc.stage # None

\* C11 as claimed: encode_dia_semana_ordinal is idempotent: applied again to
\* the train and test splits it has already encoded, it leaves every value
\* unchanged.
C11_Claim ==
    (prog = "cleaner" /\ pc = "c_filter") =>
        EncodeDiaSemanaOrdinal(x_train, x_test)
            = [x_train |-> x_train, x_test |-> x_test]

\* the columns _handle_temporal_columns is to remove
NamedTemporal == {"date", "fecha", "hora_inicial", "hora_final", "dia", "mes",
                  "anio", "dia_semana"}

\* table after is table before without the columns gone, cell for cell
SameBut(before, after, gone) ==
    /\ after.columns = before.columns \ gone
    /\ Len(after.rows) = Len(before.rows)
    /\ \A i \in DOMAIN before.rows :
           \A c \in before.columns \ gone : after.rows[i][c] = before.rows[i][c]

\* C12: with include_data_time = False, _handle_temporal_columns removes from
\* train and test exactly the named temporal columns that are present, keeps
\* every other column and cell, and does not raise when some are absent; with
\* include_data_time = True both splits stay as they are; afterwards train
\* and test have the same columns.
C12_TemporalFilter ==
    [][pc = "c_filter" =>
          /\ pc' = "c_balance"
          /\ exc' = NoException
          /\ x_train'.columns = x_test'.columns
          /\ IF config.include_data_time
             THEN x_train' = x_train /\ x_test' = x_test
             ELSE /\ SameBut(x_train, x_train', NamedTemporal)
                  /\ SameBut(x_test, x_test', NamedTemporal)]_vars

\* C12 witness: the filter has removed date, fecha and dia_semana from both
\* splits (the other named columns being absent) and kept entrada_vela
C12_Witness ==
    /\ prog = "cleaner"
    /\ pc = "c_balance"
    /\ ~config.include_data_time
    /\ {"date", "fecha", "dia_semana"} \subseteq data.columns
    /\ "hora_inicial" \notin data.columns
    /\ x_train.columns = {"entrada_vela"}
    /\ x_test.columns = {"entrada_vela"}
    /\ x_train.rows # <<>>
    /\ x_test.rows # <<>>

\* C13: every window made by _create_groups has all its in-window indices
\* i .. i + W - 1 and its label index i + W + F - 1 inside [0, N), and
\* _process_group never reads a candle that is missing.
C13_IndicesValid ==
    GroupsCreated =>
        /\ \A j \in DOMAIN groups :
               LET g == groups[j]
               IN  /\ g.train_indices.start = j - 1
                   /\ g.train_indices.stop
                          = g.train_indices.start + config.candle_size_to_traing
                   /\ g.train_indices.start >= 0
                   /\ g.train_indices.stop - 1 < Len(candles)
                   /\ g.predict_index
                          = j - 1 + config.candle_size_to_traing
                                  + config.candle_to_predict - 1
                   /\ g.predict_index >= 0
                   /\ g.predict_index < Len(candles)
        /\ exc.type # "IndexError"

\* C13 witness: with a future offset of at least 1, two windows were made,
\* the last one labelled by the last candle but one, and every window was
\* processed
C13_Witness ==
    /\ GroupsCreated
    /\ config.candle_to_predict >= 1
    /\ Len(groups) >= 2
    /\ groups[Len(groups)].predict_index = Len(candles) - 2
    /\ Len(data_final) = Len(groups)

\* C14 as claimed: for every window and every W >= 1, F >= 0, the index of
\* the label candle is greater than the last in-window index, so no candle
\* is both a feature and the label of a row.
C14_Claim ==
    GroupsCreated =>
        \A j \in DOMAIN groups :
            groups[j].predict_index > groups[j].train_indices.stop - 1

\* row j of a grouped list is built from the window starting at candle j
RowFromWindow(row, j) ==
    /\ \A p \in 1..config.candle_size_to_traing :
           /\ row.entrada_vela[p] = candles[j + p - 1].entrada_vela_1
           /\ row.salida_vela[p] = candles[j + p - 1].salida_vela_1
    /\ Len(row.entrada_vela) = config.candle_size_to_traing
    /\ Len(row.salida_vela) = config.candle_size_to_traing
    /\ row.fecha = candles[j].fecha
    /\ row.dia_semana = candles[j].dia_semana

\* C15: the j-th row of the Grouper comes from the window starting at candle
\* j: the prices at position p are those of candle j + p - 1 and the date
\* fields are those of candle j; the dataframe and the saved file hold the
\* rows in that order.
C15_RowContent ==
    prog = "pipeline" =>
        /\ \A j \in DOMAIN data_final : RowFromWindow(data_final[j], j)
        /\ (dataframe # NoneTable) =>
               /\ Len(dataframe.rows) = Len(data_final)
               /\ \A j \in DOMAIN dataframe.rows :
                      RowFromWindow(dataframe.rows[j], j)
        /\ (data_grouped # NoneTable) =>
               /\ Len(data_grouped.rows) = Len(data_final)
               /\ \A j \in DOMAIN data_grouped.rows :
                      RowFromWindow(data_grouped.rows[j], j)

\* C15 witness: a saved file of two rows of two candles each, the candles of
\* the second window differing in price
C15_Witness ==
    /\ prog = "pipeline"
    /\ config.candle_size_to_traing = 2
    /\ data_grouped # NoneTable
    /\ Len(data_grouped.rows) >= 2
    /\ data_grouped.rows[2].entrada_vela[1] # data_grouped.rows[2].entrada_vela[2]
    /\ data_grouped.rows[2].fecha = 2

\* C16 as claimed: the sort of partition_data is stable: after it, rows with
\* equal date are in their original relative order (entrada_vela holds the
\* row's place in the file read), so the splits are determined by the input.
C16_Claim ==
    (prog = "cleaner" /\ pc = "c_encode") =>
        \A i, j \in DOMAIN data.rows :
            (i < j /\ data.rows[i].date = data.rows[j].date) =>
                data.rows[i].entrada_vela[1] < data.rows[j].entrada_vela[1]

\* C17: the oversampler is built with max(1, minority_count - 1) when the
\* requested k_neighbors >= minority_count and with the requested value
\* otherwise; for minority_count >= 2 that value is at least 1 and less
\* than minority_count; the adjustment never raises: whenever the ratio is
\* below the target the oversampler is reached.
C17_KClamp ==
    (smote_call.called /\ CallLabels # <<>>) =>
        LET m == MinorityCount(CallLabels)
            requested == smote_call.k_neighbors
        IN  /\ ~CallRatioReached <=> "smote_k" \in DOMAIN smote_return
            /\ "smote_k" \in DOMAIN smote_return =>
                   /\ smote_return.smote_k
                          = IF requested >= m THEN Max(1, m - 1) ELSE requested
                   /\ m >= 2 => /\ smote_return.smote_k >= 1
                                /\ smote_return.smote_k < m

\* C17 witness: k_neighbors >= minority_count = 2 was requested, the
\* oversampler was built with 1 and made its rows
C17_Witness ==
    /\ smote_call.called
    /\ CallLabels # <<>>
    /\ MinorityCount(CallLabels) = 2
    /\ smote_call.k_neighbors >= 2
    /\ "smote_k" \in DOMAIN smote_return
    /\ smote_return.smote_k = 1
    /\ ~smote_return.raised
    /\ Len(smote_return.y) > Len(CallLabels)

\* C18 as claimed: when the minority class of a numeric train split has at
\* most one row, balancing ends in an InsufficientDataError, no balanced
\* train set is produced and the cleaning stops.
C18_Claim ==
    (/\ prog = "cleaner"
     /\ smote_call.called
     /\ smote_call.data.text = {}
     /\ CallLabels # <<>>
     /\ MinorityCount(CallLabels) <= 1) =>
        /\ smote_return.raised
        /\ smote_return.type = "InsufficientDataError"
        /\ pc = "crashed"
        /\ data_balanced = NoneTable

\* C19 as claimed: with at most W + F candles the grouping makes no row and
\* Grouper.main completes without raising.
C19_Claim ==
    (/\ GroupsCreated
     /\ Len(candles) <= config.candle_size_to_traing + config.candle_to_predict) =>
        /\ data_final = <<>>
        /\ pc # "except_grouper"
        /\ exc.type # "KeyError"

\* C20 as claimed: a window whose last in-window close is exactly 0 fails
\* with a ComputationError: no row is made for it and no label is computed
\* from the zero denominator.
C20_Claim ==
    prog = "pipeline" =>
        \A j \in DOMAIN groups :
            candles[j - 1 + config.candle_size_to_traing].salida_vela_1 = 0 =>
                j \notin DOMAIN data_final

\* the labels of the train split as partition_data made it
TrainSplitLabels == IF smote_call.called THEN CallLabels ELSE y_train

\* C21 as claimed: when partition_data has made a train split or a test
\* split of length zero, the steps encode, filter, balance and save raise no
\* error.
C21_Claim ==
    (/\ prog = "cleaner"
     /\ pc \notin {"c_explore", "c_partition"}
     /\ "date" \in data.columns
     /\ (TrainSplitLabels = <<>> \/ y_test = <<>>)) =>
        exc = NoException

\* C22 as claimed: every key of CLEANING_CONFIG is accepted by the Cleaner,
\* so run_cleaning builds the Cleaner and goes on into Cleaner.main without
\* an error.
C22_Claim ==
    (/\ prog = "pipeline"
     /\ "cleaning" \in Range(trace)) =>
        /\ exc = NoException
        /\ pc \notin {"except_cleaning", "except_pipeline", "crashed"}

\* C23 as claimed: in BalanceadorClases.main, once the SMOTE step has
\* completed, data_balanced holds the balanced rows, steps 4 to 6 work on it
\* without error and the value returned is not None.
C23_Claim ==
    (/\ prog = "balancer"
     /\ smote_call.called
     /\ ~smote_return.raised) =>
        /\ data_balanced # NoneTable
        /\ data_balanced = WithTarget(smote_return.X, smote_return.y)
        /\ exc = NoException

\* C25 as claimed: for a grouped file (row d starts at candle d, dates
\* ascending) made with any window W and offset F, after the chronological
\* split every candle a train row uses, as a feature or as its label candle,
\* has a lower index than the first candle of the earliest test row.
C25_Claim ==
    (/\ prog = "cleaner"
     /\ pc = "c_encode"
     /\ \A i \in DOMAIN data_grouped.rows : data_grouped.rows[i].date = i) =>
        \A W \in 1..MaxWindow, F \in 0..MaxFuture :
            LET g == CreateGroups(Len(data.rows) + W + F, W, F)
            IN  \A a \in DOMAIN x_train.rows, b \in DOMAIN x_test.rows :
                    LET tr == g[x_train.rows[a].date]
                        te == g[x_test.rows[b].date]
                    IN  /\ tr.train_indices.stop - 1 < te.train_indices.start
                        /\ tr.predict_index < te.train_indices.start

\* the requests in flight: the tasks between session.get and its outcome
InFlight == {u \in DOMAIN tasks : tasks[u].pc = "get"}

\* the permits held by the calls of all tasks
RECURSIVE HeldFrom(_)
HeldFrom(u) == IF u > Len(tasks) THEN 0 ELSE tasks[u].held + HeldFrom(u + 1)

\* an attempt that ended without returning JSON: another status, a timeout
\* or an error, the error of decoding the body included
Failed(outcome) == outcome \in {"failed", "undecodable"}

\* the requests task u has issued, the one in flight included
Issued(u) == Len(tasks[u].attempts) + (IF tasks[u].pc = "get" THEN 1 ELSE 0)

\* C24 as claimed: no state is reachable in which process_urls has tasks
\* that are not done and every one of them waits for a permit of a
\* semaphore that has none left, so that gather can never return.
C24_Claim ==
    ~(/\ prog = "consulter"
      /\ pc = "s_gather"
      /\ \E u \in DOMAIN tasks : tasks[u].pc # "done"
      /\ \A u \in DOMAIN tasks :
            tasks[u].pc # "done" => tasks[u].pc = "acquire"
      /\ semaphore = 0)

\* C26: at every moment of process_urls at most max_concurrent requests are
\* in flight; the semaphore never goes below zero and every permit is either
\* free or held by a call.
C26_InFlightBound ==
    prog = "consulter" =>
        /\ Cardinality(InFlight) <= config.max_concurrent
        /\ semaphore >= 0
        /\ semaphore + HeldFrom(1) = config.max_concurrent

\* C26 witness: there are more URLs than permits, max_concurrent requests
\* are in flight and another task waits for a permit.
C26_Witness ==
    /\ prog = "consulter"
    /\ config.url_count > config.max_concurrent
    /\ Cardinality(InFlight) = config.max_concurrent
    /\ \E u \in DOMAIN tasks : tasks[u].pc = "acquire" /\ tasks[u].held = 0

\* C27: a URL gets at most max_retries + 1 requests; every attempt before
\* the last one failed; None is returned only after exactly max_retries + 1
\* failed attempts; after an attempt that returned JSON the task is done and
\* issues nothing more.
C27_RetryBound ==
    prog = "consulter" =>
        \A u \in DOMAIN tasks :
            LET a == tasks[u].attempts
            IN  /\ Issued(u) <= config.max_retries + 1
                /\ tasks[u].retry_count + 1 = Issued(u)
                       + (IF tasks[u].pc = "acquire" THEN 1 ELSE 0)
                /\ \A i \in DOMAIN a : i < Issued(u) => Failed(a[i])
                /\ tasks[u].result = None =>
                       /\ Len(a) = config.max_retries + 1
                       /\ \A i \in DOMAIN a : Failed(a[i])
                /\ (\E i \in DOMAIN a : a[i] = "ok") =>
                       /\ tasks[u].pc = "done"
                       /\ tasks[u].result = "json"
                       /\ a[Len(a)] = "ok"

\* C27 witness: with max_retries = 1 one URL failed twice and gave None, and
\* another failed once and returned JSON from its retry.
C27_Witness ==
    /\ prog = "consulter"
    /\ config.max_retries = 1
    /\ \E u, v \in DOMAIN tasks :
        /\ tasks[u].result = None
        /\ Len(tasks[u].attempts) = 2
        /\ tasks[v].result = "json"
        /\ tasks[v].attempts = <<"failed", "ok">>

\* C28 as claimed: when Consulter.main has returned, rigth_request_count is
\* the number of responses returned, wrong_request_count is the number of
\* URLs that gave None, and the two add up to the number of URLs.
C28_Claim ==
    (prog = "consulter" /\ pc = "done") =>
        /\ rigth_request_count = Len(responses)
        /\ wrong_request_count = config.url_count - Len(responses)
        /\ rigth_request_count + wrong_request_count = config.url_count

====
